---- MODULE Spec2Model ----
(***************************************************************************)
(* AI meeting assistant: the real-time pipeline of backend/main.py          *)
(* (websocket_endpoint, process_audio_stream, ConnectionManager), the       *)
(* duplicate-request guard and generate_answer of answer_generator.py, the  *)
(* platform manager as the pipeline calls it, and the functions _is_speech  *)
(* of audio_service.py and detect_question of question_detector.py.         *)
(*                                                                          *)
(* Texts.  A text (a Python str) is a sequence of tokens.  A token is       *)
(* either a word (a maximal run of non-whitespace characters) or the        *)
(* whitespace token " " (a run of whitespace).  The empty str is <<>>.      *)
(* Character-level facts about a word (its lowercase form, its last         *)
(* character) are tables over the finite vocabulary of the model.           *)
(*                                                                          *)
(* Time.  datetime.now() is the variable now, in seconds; the clock         *)
(* advances in steps of TickSeconds.                                        *)
(***************************************************************************)
EXTENDS Integers, Sequences, FiniteSets, TLC

VARIABLES
    now,                   \* datetime.now(), seconds
    last_requests,         \* AnswerGenerator.last_requests: text -> time registered
    ret,                   \* outcome of the _is_duplicate_request call made at this instant
    reported,              \* stored key -> time it was last reported as duplicate (history variable)
    active_connections,    \* ConnectionManager.active_connections (a list)
    handler,               \* per websocket: position of websocket_endpoint
    client,                \* per websocket: whether the peer still accepts sends
    task,                  \* per websocket: position of its process_audio_stream task
    conversation_history,  \* per task: the local list conversation_history
    appended,              \* per task: every transcript appended so far (history variable)
    detected_question,     \* per task: local detected_question of the iteration
    answer,                \* per task: local answer of the iteration
    target,                \* per task: the connection whose send_json is awaited
    cursor,                \* per task: list index the for-loop of broadcast reads next
    received,              \* per websocket: events the peer has received, in order
    segments,              \* number of segments captured so far, all tasks together
    pending,               \* per task: connections registered when its broadcast was
                           \* called and not yet served by it (history variable)
    prepared_context,      \* per task: conversation_context of the generate_answer call
                           \* in progress, as numbered lines; Empty without such a call
    raised,                \* per task: the collaborator call of this iteration that
                           \* raised, "none" when neither did (history variable)
    is_recording,          \* audio_service.is_recording (the AudioService of main.py:43)
    audio_device,          \* audio_service.audio_device: "none", "started" or "stopped"
    current_platform,      \* platform_manager.current_platform
    current_meeting_id,    \* platform_manager.current_meeting_id
    connection_status,     \* platform_manager.connection_status
    platform_audio,        \* platform_manager.audio_service: its own AudioService
    stop_received,         \* per websocket: a stop_meeting message was handled (history variable)
    openai_client,         \* whether OPENAI_API_KEY is set, i.e. both openai_client fields are
    generated,             \* the last call of generate_answer and what it returned
    vad,                   \* whether audio_service.vad is set (initialize succeeded)
    segment,               \* the audio segment handed to _is_speech
    is_speech,             \* whether _is_speech was called, and what it returned
    nltk_initialized,      \* question_detector.nltk_initialized
    model_approves,        \* the sentences _is_question_model_based accepts; {} without model
    utterance,             \* the transcript handed to detect_question
    detected,              \* whether detect_question was called, and what it returned
    asked,                 \* the question handed to extract_question_metadata
    metadata,              \* whether extract_question_metadata was called, and what it returned
    buffer,                \* audio_service.buffer: the blocks appended by the audio callback
    produced,              \* number of blocks the audio callback has delivered so far
    capturing,             \* per caller of capture_audio: its position
    audio_data             \* per caller: the blocks its capture_audio calls have
                           \* returned, call after call

guardVars   == <<now, last_requests, ret, reported>>
connVars    == <<active_connections, handler, client, received>>
taskVars    == <<task, conversation_history, appended, detected_question, answer,
                 target, cursor, segments, pending,
                 prepared_context, raised>>
audioVars   == <<is_recording, audio_device>>
meetingVars == <<current_platform, current_meeting_id, connection_status, platform_audio,
                 stop_received>>
metadataVars == <<asked, metadata>>
captureVars == <<buffer, produced, capturing, audio_data>>
funcVars    == <<openai_client, generated, vad, segment, is_speech,
                 nltk_initialized, model_approves, utterance, detected, metadataVars,
                 captureVars>>
vars        == <<now, last_requests, ret, reported, active_connections, handler, client, task,
                 conversation_history, appended, detected_question, answer, target,
                 cursor, received, segments, pending, prepared_context, raised, is_recording, audio_device,
                 current_platform, current_meeting_id, connection_status, platform_audio,
                 stop_received, openai_client, generated, vad, segment, is_speech,
                 nltk_initialized, model_approves, utterance, detected, asked, metadata,
                 buffer, produced, capturing, audio_data>>

----------------------------------------------------------------------------
(* Bounds of the model *)

\* the clock is observed every TickSeconds seconds, up to MaxTime
TickSeconds == 15
MaxTime == 45
\* websocket clients that may connect
NumClients == 3
\* segments captured in one run of the full system
MaxSegments == 2
\* transcripts appended in one run of the window specification
MaxAppends == 32
\* how many of these transcripts may differ from the default one
MaxMarked == 2

(* Program constants *)

\* answer_generator.py:66  total_seconds() > 30
Horizon == 30
\* answer_generator.py:71  _similarity(q, question) > 0.8, in percent
SimilarityThresholdPct == 80
\* main.py:95  len(conversation_history) > 30
WindowCapacity == 30
\* answer_generator.py:23  max_context_length
max_context_length == 10

----------------------------------------------------------------------------
(* Texts *)

\* Python None, kept distinct from every text
None == <<"<None>">>

Empty == <<>>
Blank == <<" ">>
Q_Plan        == <<"what", " ", "is", " ", "the", " ", "plan?">>
Q_PlanCaps    == <<"What", " ", "IS", " ", "the", " ", "plan?">>
Q_PlanNow     == <<"what", " ", "is", " ", "the", " ", "plan?", " ", "now">>
Q_PlanNowThen == <<"what", " ", "is", " ", "the", " ", "plan?", " ", "now", " ", "then">>
S_Works       == <<"the", " ", "plan", " ", "works.">>
S_Noted       == <<"noted.">>
Q_Deadline    == <<"What", " ", "is", " ", "the", " ", "deadline?">>
Q_WhoDid      == <<"who", " ", "did", " ", "it?">>
Q_WhenDue     == <<"when", " ", "is", " ", "it", " ", "due?">>
Q_WhereHeld   == <<"where", " ", "is", " ", "it", " ", "held?">>
Q_WhyLate     == <<"why", " ", "is", " ", "it", " ", "late?">>
Q_HowBuilt    == <<"how", " ", "is", " ", "it", " ", "built?">>
Q_IsDone      == <<"is", " ", "it", " ", "done?">>
Q_IsKnownWho  == <<"is", " ", "it", " ", "known", " ", "who", " ", "did", " ", "it?">>
Q_ShowIt      == <<"show", " ", "it?">>

\* str.lower(), word by word
Lower(w) ==
    CASE w = "What" -> "what"
      [] w = "IS"   -> "is"
      [] w = "Why"  -> "why"
      [] OTHER      -> w

\* whether the last character of a word is "?"
EndsWithQuestionMark(w) ==
    w \in {"plan?", "deadline?", "it?", "due?", "held?", "late?", "built?", "done?",
           "bother?"}

\* a run of whitespace: one blank, or two
IsSpace(w) == w \in {" ", "  "}

\* str.split(): the words of a text, whitespace dropped
Split(text) == SelectSeq(text, LAMBDA w : ~IsSpace(w))

\* set(text.lower().split())
WordSet(text) == {Lower(Split(text)[i]) : i \in 1..Len(Split(text))}

RECURSIVE LStrip(_)
LStrip(text) ==
    IF text # <<>> /\ IsSpace(Head(text)) THEN LStrip(Tail(text)) ELSE text

RECURSIVE RStrip(_)
RStrip(text) ==
    IF text # <<>> /\ IsSpace(text[Len(text)])
    THEN RStrip(SubSeq(text, 1, Len(text) - 1))
    ELSE text

\* str.strip()
Strip(text) == RStrip(LStrip(text))

----------------------------------------------------------------------------
(* AnswerGenerator: the duplicate-request guard *)

\* a similarity is the rational number num/den; 0.0 is 0/1
Zero == [num |-> 0, den |-> 1]

\* a guard-clause slip: degenerate texts count as identical
SimilarityDegenerateIsOne(text1, text2) ==
    IF text1 = Empty \/ text2 = Empty
    THEN [num |-> 1, den |-> 1]
    ELSE LET words1 == WordSet(text1)
             words2 == WordSet(text2)
             intersection == words1 \cap words2
             union == words1 \cup words2
         IN  IF union = {} THEN [num |-> 1, den |-> 1]
             ELSE [num |-> Cardinality(intersection), den |-> Cardinality(union)]

\* AnswerGenerator._similarity
Similarity(text1, text2) ==
    IF text1 = Empty \/ text2 = Empty
    THEN Zero
    ELSE LET words1 == WordSet(text1)
             words2 == WordSet(text2)
             intersection == words1 \cap words2
             union == words1 \cup words2
         IN  IF union = {} THEN Zero
             ELSE [num |-> Cardinality(intersection), den |-> Cardinality(union)]

\* the comparison written >= instead of >
AboveThresholdInclusive(sim) == sim.num * 100 >= SimilarityThresholdPct * sim.den

\* self._similarity(q, question) > 0.8
AboveThreshold(sim) == sim.num * 100 > SimilarityThresholdPct * sim.den

\* the purge written >= instead of >
ExpiredInclusive(registered, current_time) == current_time - registered >= Horizon

\* (current_time - self.last_requests[q]).total_seconds() > 30
Expired(registered, current_time) == current_time - registered > Horizon

\* the clean-up loop left out
PurgeNothing(requests, current_time) == requests

\* the clean-up loop of _is_duplicate_request: del of every expired key
Purge(requests, current_time) ==
    [q \in {k \in DOMAIN requests : ~Expired(requests[k], current_time)} |-> requests[q]]

\* the look-up loop of _is_duplicate_request, over the purged dict
SimilarRecent(requests, question) ==
    \E q \in DOMAIN requests : AboveThreshold(Similarity(q, question))

\* self.last_requests[question] = current_time
Register(requests, question, current_time) ==
    [q \in DOMAIN requests \cup {question} |->
        IF q = question THEN current_time ELSE requests[q]]

\* a repeat that refreshes the stored timestamps
RequestsAfterRefreshing(requests, question, current_time) ==
    LET purged == Purge(requests, current_time)
    IN  IF SimilarRecent(purged, question)
        THEN [q \in DOMAIN purged |->
                 IF AboveThreshold(Similarity(q, question)) THEN current_time ELSE purged[q]]
        ELSE Register(purged, question, current_time)

\* last_requests after _is_duplicate_request(question) at current_time
RequestsAfter(requests, question, current_time) ==
    LET purged == Purge(requests, current_time)
    IN  IF SimilarRecent(purged, question)
        THEN purged
        ELSE Register(purged, question, current_time)

\* the value _is_duplicate_request(question) returns at current_time
IsDuplicateRequest(requests, question, current_time) ==
    SimilarRecent(Purge(requests, current_time), question)

NoCall == [question |-> None, duplicate |-> FALSE, age |-> -1, reported |-> -1]

\* time elapsed since the entry of `question` in a dict; -1 when it has none
AgeOf(requests, question, current_time) ==
    IF question \in DOMAIN requests THEN current_time - requests[question] ELSE -1

\* for the stored keys reported as duplicate since they were registered, the
\* time of the latest report
ReportedAfter(requests, question, current_time) ==
    LET purged == Purge(requests, current_time)
        kept == DOMAIN reported \cap DOMAIN purged
        matched == {q \in DOMAIN purged : AboveThreshold(Similarity(q, question))}
    IN  IF matched # {}
        THEN [q \in kept \cup matched |->
                 IF q \in matched THEN current_time ELSE reported[q]]
        ELSE [q \in kept \ {question} |-> reported[q]]

\* one call of AnswerGenerator._is_duplicate_request(question)
CheckAndRegister(question) ==
    /\ last_requests' = RequestsAfter(last_requests, question, now)
    /\ ret' = [question |-> question,
               duplicate |-> IsDuplicateRequest(last_requests, question, now),
               age |-> AgeOf(last_requests, question, now),
               reported |-> AgeOf(reported, question, now)]
    /\ reported' = ReportedAfter(last_requests, question, now)
    /\ UNCHANGED now

\* the clock moves on; the value returned at the previous instant is consumed
Tick ==
    /\ now + TickSeconds <= MaxTime
    /\ now' = now + TickSeconds
    /\ ret' = NoCall
    /\ UNCHANGED <<last_requests, reported>>

----------------------------------------------------------------------------
(* QuestionDetector.detect_question, rule-based pass.  self.model is None   *)
(* unless a GPU or a cached model is present; the model-based pass is then  *)
(* skipped (question_detector.py:145).                                      *)

\* whether a word ends a sentence for sent_tokenize
IsSentenceEnd(w) ==
    w \in {"plan?", "works.", "noted.",
           "deadline?", "it?", "due?", "held?", "late?", "built?", "done?",
           "bother?"}

\* question_detector.py:22, the alternatives of the yes/no pattern
YesNoLeads == {"can", "could", "would", "will", "should", "do", "does", "did",
               "is", "are", "was", "were", "have", "has", "had"}

\* question_detector.py:23, the alternatives of the WH pattern
WhWords == {"what", "which", "when", "where", "why", "who", "whom", "whose", "how"}

\* question_detector.py:26-30
question_starters == WhWords \cup YesNoLeads \cup {"may", "might"}

RECURSIVE SentencesFrom(_, _)
SentencesFrom(text, current) ==
    IF text = <<>>
    THEN IF Strip(current) = <<>> THEN <<>> ELSE <<Strip(current)>>
    ELSE IF IsSentenceEnd(Head(text))
         THEN <<Strip(Append(current, Head(text)))>> \o SentencesFrom(Tail(text), <<>>)
         ELSE SentencesFrom(Tail(text), Append(current, Head(text)))

\* nltk's sent_tokenize: a sentence ends after a word with final punctuation
SentTokenize(text) == SentencesFrom(text, <<>>)

\* only the three patterns: the test of the first word against question_starters
\* is missing
IsQuestionRuleBasedNoStarters(text) ==
    LET t == Strip(text)
    IN  /\ t # <<>>
        /\ \/ /\ Len(t) >= 3
              /\ Lower(t[1]) \in YesNoLeads
              /\ IsSpace(t[2])
           \/ /\ Len(t) >= 2
              /\ Lower(t[1]) \in WhWords
              /\ IsSpace(t[2])
           \/ EndsWithQuestionMark(t[Len(t)])

\* the trailing-question-mark pattern is missing
IsQuestionRuleBasedNoMark(text) ==
    LET t == Strip(text)
        words == Split(t)
    IN  /\ t # <<>>
        /\ \/ /\ Len(t) >= 3
              /\ Lower(t[1]) \in YesNoLeads
              /\ IsSpace(t[2])
           \/ /\ Len(t) >= 2
              /\ Lower(t[1]) \in WhWords
              /\ IsSpace(t[2])
           \/ Lower(words[1]) \in question_starters

\* QuestionDetector._is_question_rule_based
IsQuestionRuleBased(text) ==
    LET t == Strip(text)
        words == Split(t)
    IN  /\ t # <<>>
        /\ \/ /\ Len(t) >= 3                      \* ^(?:can|...)\s+\w+
              /\ Lower(t[1]) \in YesNoLeads
              /\ IsSpace(t[2])
           \/ /\ Len(t) >= 2                      \* ^(?:what|...)\s+
              /\ Lower(t[1]) \in WhWords
              /\ IsSpace(t[2])
           \/ EndsWithQuestionMark(t[Len(t)])     \* \?\s*$
           \/ Lower(words[1]) \in question_starters

\* two loops: the rule-based pass over every sentence, then the model-based pass
RECURSIVE FirstQuestionRulesFirst(_, _)
FirstQuestionRulesFirst(sentences, approved) ==
    LET RECURSIVE First(_, _)
        First(rest, rules) ==
            IF rest = <<>> THEN None
            ELSE IF rules /\ IsQuestionRuleBased(Head(rest)) THEN Strip(Head(rest))
            ELSE IF ~rules /\ Head(rest) \in approved THEN Strip(Head(rest))
            ELSE First(Tail(rest), rules)
    IN  IF First(sentences, TRUE) # None THEN First(sentences, TRUE)
        ELSE First(sentences, FALSE)

\* the for loop of detect_question (question_detector.py:137-149); approved: the
\* sentences the model-based pass accepts
RECURSIVE FirstQuestionWith(_, _)
FirstQuestionWith(sentences, approved) ==
    IF sentences = <<>> THEN None
    ELSE IF IsQuestionRuleBased(Head(sentences)) THEN Strip(Head(sentences))
    ELSE IF Head(sentences) \in approved THEN Strip(Head(sentences))
    ELSE FirstQuestionWith(Tail(sentences), approved)

\* the same loop when self.model is None
FirstQuestion(sentences) == FirstQuestionWith(sentences, {})

\* QuestionDetector.detect_question; tokenizes: nltk_initialized is set
DetectQuestionWith(transcript, tokenizes, approved) ==
    IF transcript = Empty THEN None
    ELSE FirstQuestionWith(IF tokenizes THEN SentTokenize(transcript) ELSE <<transcript>>,
                           approved)

\* every transcript taken for a question
DetectQuestionWholeTranscript(transcript) ==
    IF transcript = Empty THEN None ELSE Strip(transcript)

\* detect_question of the detector main.py runs: punkt is present, no model is loaded
DetectQuestion(transcript) ==
    IF transcript = Empty THEN None ELSE FirstQuestion(SentTokenize(transcript))

\* one call detect_question(utterance)
Detect ==
    /\ ~detected.called
    /\ detected' = [called |-> TRUE,
                    question |-> DetectQuestionWith(utterance, nltk_initialized,
                                                    model_approves)]
    /\ UNCHANGED <<openai_client, generated, vad, segment, is_speech,
                   nltk_initialized, model_approves, utterance, metadataVars,
                   captureVars>>

----------------------------------------------------------------------------
(* AudioService._is_speech.  A segment is the verdict of the VAD for each   *)
(* of its complete frames of frame_length bytes, and the number of bytes    *)
(* left after the last complete frame.                                      *)

\* int(self.sample_rate * self.frame_duration / 1000) (audio_service.py:121)
sample_rate == 16000
frame_duration == 30
frame_length == (sample_rate * frame_duration) \div 1000

\* the ratio of the return statement, in percent (audio_service.py:135)
SpeechRatioPct == 30

\* len(raw_data)
ByteLength(audio) == Len(audio.frames) * frame_length + audio.rest

\* the values of i in range(0, len(raw_data) - frame_length, frame_length),
\* as frame numbers i / frame_length + 1
RangeFrames(audio) ==
    {k \in 1..Len(audio.frames) : (k - 1) * frame_length < ByteLength(audio) - frame_length}

\* AudioService._is_speech
IsSpeech(has_vad, audio) ==
    IF ~has_vad THEN TRUE
    ELSE LET total_frames == Cardinality(RangeFrames(audio))
             speech_frames == Cardinality({k \in RangeFrames(audio) : audio.frames[k]})
         IN  total_frames > 0 /\ speech_frames * 100 >= SpeechRatioPct * total_frames

\* one call _is_speech(segment), as transcribe_audio makes it for a non-empty segment
IsSpeechCall ==
    /\ ~is_speech.called
    /\ ByteLength(segment) > 0
    /\ is_speech' = [called |-> TRUE, value |-> IsSpeech(vad, segment)]
    /\ UNCHANGED <<openai_client, generated, vad, segment,
                   nltk_initialized, model_approves, utterance, detected, metadataVars,
                   captureVars>>

----------------------------------------------------------------------------
(* QuestionDetector.extract_question_metadata: the question type *)

\* the prefixes tested by str.startswith of which a lowercase word is an instance
TypePrefixes(w) ==
    CASE w = "what"  -> {"what"}
      [] w = "who"   -> {"who"}
      [] w = "when"  -> {"when"}
      [] w = "where" -> {"where"}
      [] w = "why"   -> {"why"}
      [] w = "how"   -> {"how"}
      [] w = "is"    -> {"is"}
      [] w = "did"   -> {"did"}
      [] w = "whom"  -> {"who", "whom"}
      [] w = "whose" -> {"who", "whose"}
      [] w = "which" -> {"which"}
      [] w = "what's" -> {"what"}
      [] w = "island" -> {"is"}
      [] w = "wouldn't" -> {"would"}
      [] OTHER       -> {}

\* the classification without its last elif
QuestionTypeNoWhich(question) ==
    LET t == Strip(question)
        prefixes == IF t = <<>> THEN {} ELSE TypePrefixes(Lower(t[1]))
    IN  IF prefixes \cap WhWords # {}
        THEN IF "what" \in prefixes THEN "what"
             ELSE IF prefixes \cap {"who", "whom", "whose"} # {} THEN "who"
             ELSE IF "where" \in prefixes THEN "where"
             ELSE IF "when" \in prefixes THEN "when"
             ELSE IF "why" \in prefixes THEN "why"
             ELSE IF "how" \in prefixes THEN "how"
             ELSE "wh"
        ELSE IF prefixes \cap YesNoLeads # {} THEN "yes_no"
        ELSE "unknown"

\* question_type of extract_question_metadata (question_detector.py:156-182)
QuestionType(question) ==
    LET t == Strip(question)
        prefixes == IF t = <<>> THEN {} ELSE TypePrefixes(Lower(t[1]))
    IN  IF prefixes \cap WhWords # {}
        THEN IF "what" \in prefixes THEN "what"
             ELSE IF prefixes \cap {"who", "whom", "whose"} # {} THEN "who"
             ELSE IF "where" \in prefixes THEN "where"
             ELSE IF "when" \in prefixes THEN "when"
             ELSE IF "why" \in prefixes THEN "why"
             ELSE IF "how" \in prefixes THEN "how"
             ELSE IF "which" \in prefixes THEN "which"
             ELSE "wh"
        ELSE IF prefixes \cap YesNoLeads # {} THEN "yes_no"
        ELSE "unknown"

(* QuestionDetector.extract_question_metadata: the other fields *)

Q_WhatTime == <<"What", " ", "time", " ", "is", " ", "the", " ", "deadline?">>
Q_SoWhyBother == <<"so?so", " ", "Why", " ", "bother">>

\* whether the character "?" occurs in the word
HasQuestionMark(w) == EndsWithQuestionMark(w) \/ w = "so?so"

\* the flag computed from the last character only
ContainsQuestionMarkAtEnd(question) ==
    question # <<>> /\ EndsWithQuestionMark(question[Len(question)])

\* "?" in question
ContainsQuestionMark(question) ==
    \E i \in 1..Len(question) : HasQuestionMark(question[i])

\* question_detector.py:186-193; "who (would|wouldn't)" is found exactly where
\* "who would" is, "who wouldn't" beginning with it
rhetorical_patterns ==
    {<<"isn't", "it", "obvious">>, <<"don't", "you", "think">>,
     <<"wouldn't", "you", "agree">>, <<"who", "would">>,
     <<"what's", "the", "point">>, <<"why", "bother">>}

\* the pattern words that a lowercase word of the text begins with
WordPrefixes(w) ==
    CASE w = "bother?"  -> {"bother", "bother?"}
      [] w = "wouldn't" -> {"would", "wouldn't"}
      [] OTHER          -> {w}

\* the pattern words that a lowercase word of the text ends with
WordSuffixes(w) == {w}

\* re.search(pattern, question_lower) finding the pattern with its first word
\* in the token at position i: a single blank between the words, the first
\* word ending its token, the last one beginning its token
FoundAt(pattern, question, i) ==
    LET n == Len(pattern)
    IN  /\ i + 2 * (n - 1) <= Len(question)
        /\ pattern[1] \in WordSuffixes(Lower(question[i]))
        /\ \A k \in 2..n :
              /\ question[i + 2 * k - 3] = " "
              /\ IF k = n THEN pattern[k] \in WordPrefixes(Lower(question[i + 2 * k - 2]))
                          ELSE pattern[k] = Lower(question[i + 2 * k - 2])

\* is_rhetorical (question_detector.py:185-197)
IsRhetorical(question) ==
    \E pattern \in rhetorical_patterns : \E i \in 1..Len(question) :
        FoundAt(pattern, question, i)

\* extract_question_metadata has not been called
NoMetadata ==
    [called |-> FALSE, present |-> FALSE, question_type |-> "unknown",
     is_rhetorical |-> FALSE, word_count |-> 0, contains_question_mark |-> FALSE]

\* the dictionary extract_question_metadata returns; present is FALSE for {}
ExtractQuestionMetadata(question) ==
    IF question = Empty \/ question = None
    THEN [NoMetadata EXCEPT !.called = TRUE]
    ELSE [called |-> TRUE, present |-> TRUE,
          question_type |-> QuestionType(question),
          is_rhetorical |-> IsRhetorical(question),
          word_count |-> Len(Split(question)),
          contains_question_mark |-> ContainsQuestionMark(question)]

InitMetadataIdle ==
    /\ asked = Empty
    /\ metadata = NoMetadata

\* one call of extract_question_metadata
ExtractMetadata ==
    /\ ~metadata.called
    /\ metadata' = ExtractQuestionMetadata(asked)
    /\ UNCHANGED <<openai_client, generated, vad, segment, is_speech,
                   nltk_initialized, model_approves, utterance, detected, asked,
                   captureVars>>

----------------------------------------------------------------------------
(* AnswerGenerator.generate_answer *)

\* what generate_answer may return: the stripped content of the API response,
\* the string of the except branch, "" for an empty or duplicate question
Generated == "generated"
Apology == "apology"
NoAnswer == ""

\* the strings of _generate_mock_answer (answer_generator.py:160-171)
WhoTemplate == "who_template"
WhenTemplate == "when_template"
WhereTemplate == "where_template"
WhyTemplate == "why_template"
HowTemplate == "how_template"
GenericTemplate == "generic_template"

\* which of the strings tested by _generate_mock_answer occur inside a lowercase word
Substrings(w) ==
    CASE w = "what"  -> {"what"}
      [] w = "who"   -> {"who"}
      [] w = "when"  -> {"when"}
      [] w = "where" -> {"where"}
      [] w = "why"   -> {"why"}
      [] w = "how"   -> {"how"}
      [] w = "show"  -> {"how"}
      [] OTHER       -> {}

\* sub in text.lower(), for a sub without whitespace
Contains(text, sub) == \E i \in 1..Len(text) : sub \in Substrings(Lower(text[i]))

\* a first branch for "what" with a template of its own
MockAnswerWhatFirst(question) ==
    IF Contains(question, "what") THEN "what_template"
    ELSE IF Contains(question, "who") THEN WhoTemplate
    ELSE IF Contains(question, "when") THEN WhenTemplate
    ELSE IF Contains(question, "where") THEN WhereTemplate
    ELSE IF Contains(question, "why") THEN WhyTemplate
    ELSE IF Contains(question, "how") THEN HowTemplate
    ELSE GenericTemplate

\* the template is chosen by the type that extract_question_metadata gives
MockAnswerByType(question) ==
    LET type == QuestionType(question)
    IN  CASE type = "who"   -> WhoTemplate
          [] type = "when"  -> WhenTemplate
          [] type = "where" -> WhereTemplate
          [] type = "why"   -> WhyTemplate
          [] type = "how"   -> HowTemplate
          [] OTHER          -> GenericTemplate

\* AnswerGenerator._generate_mock_answer
MockAnswer(question) ==
    IF Contains(question, "who") THEN WhoTemplate
    ELSE IF Contains(question, "when") THEN WhenTemplate
    ELSE IF Contains(question, "where") THEN WhereTemplate
    ELSE IF Contains(question, "why") THEN WhyTemplate
    ELSE IF Contains(question, "how") THEN HowTemplate
    ELSE GenericTemplate

\* no call of generate_answer yet
NoGeneration ==
    [question |-> None, answer |-> NoAnswer, novel |-> FALSE, external_call |-> FALSE,
     call_raised |-> FALSE, raised |-> FALSE]

\* generate_answer returns before its try statement: empty or duplicate question
Skipped(question) ==
    [question |-> question, answer |-> NoAnswer, novel |-> FALSE, external_call |-> FALSE,
     call_raised |-> FALSE, raised |-> FALSE]

\* the except clause is missing: the exception of the API call leaves generate_answer
AnsweredUncaught(configured, question, call_raises) ==
    IF configured
    THEN [question |-> question, answer |-> IF call_raises THEN NoAnswer ELSE Generated,
          novel |-> TRUE, external_call |-> TRUE, call_raised |-> call_raises,
          raised |-> call_raises]
    ELSE [question |-> question, answer |-> MockAnswer(question), novel |-> TRUE,
          external_call |-> FALSE, call_raised |-> FALSE, raised |-> FALSE]

\* the try statement of generate_answer (answer_generator.py:131-154) for a novel
\* question; call_raises: the API call, or reading its response, raises
Answered(configured, question, call_raises) ==
    IF configured
    THEN [question |-> question, answer |-> IF call_raises THEN Apology ELSE Generated,
          novel |-> TRUE, external_call |-> TRUE, call_raised |-> call_raises,
          raised |-> FALSE]
    ELSE [question |-> question, answer |-> MockAnswer(question), novel |-> TRUE,
          external_call |-> FALSE, call_raised |-> FALSE, raised |-> FALSE]

\* the question recorded only once its answer has been generated
GenerateAnswerRegistersOnSuccess(question, call_raises) ==
    /\ IF question = Empty
       THEN /\ generated' = Skipped(question)
            /\ UNCHANGED guardVars
       ELSE IF IsDuplicateRequest(last_requests, question, now) \/ ~call_raises
       THEN /\ CheckAndRegister(question)
            /\ generated' = IF IsDuplicateRequest(last_requests, question, now)
                            THEN Skipped(question)
                            ELSE Answered(openai_client, question, call_raises)
       ELSE /\ last_requests' = Purge(last_requests, now)
            /\ ret' = [question |-> question, duplicate |-> FALSE,
                       age |-> AgeOf(last_requests, question, now),
                       reported |-> AgeOf(reported, question, now)]
            /\ reported' = ReportedAfter(last_requests, question, now)
            /\ generated' = Answered(openai_client, question, call_raises)
            /\ UNCHANGED now
    /\ UNCHANGED <<openai_client, vad, segment, is_speech,
                   nltk_initialized, model_approves, utterance, detected, metadataVars,
                   captureVars>>

\* one whole call generate_answer(question)
GenerateAnswer(question, call_raises) ==
    /\ IF question = Empty
       THEN /\ generated' = Skipped(question)
            /\ UNCHANGED guardVars
       ELSE /\ CheckAndRegister(question)
            /\ generated' = IF IsDuplicateRequest(last_requests, question, now)
                            THEN Skipped(question)
                            ELSE Answered(openai_client, question, call_raises)
    /\ UNCHANGED <<openai_client, vad, segment, is_speech,
                   nltk_initialized, model_approves, utterance, detected, metadataVars,
                   captureVars>>

(* AnswerGenerator._prepare_context *)

\* the slice taken from the front of the list
RecentOldest(history) ==
    SubSeq(history, 1, IF Len(history) < max_context_length
                       THEN Len(history) ELSE max_context_length)

\* conversation_history[-self.max_context_length:] (answer_generator.py:51)
Recent(history) ==
    LET keep == IF Len(history) < max_context_length
                THEN Len(history) ELSE max_context_length
    IN  SubSeq(history, Len(history) - keep + 1, Len(history))

\* the lines "[i+1] message" of the context (answer_generator.py:53-56); the
\* heading is constant, and "" (no line) is returned for an empty history
PrepareContext(history) ==
    LET recent_history == Recent(history)
    IN  [i \in 1..Len(recent_history) |-> [index |-> i, message |-> recent_history[i]]]

----------------------------------------------------------------------------
(* main.py: ConnectionManager, websocket_endpoint, process_audio_stream *)

Clients == 1..NumClients

\* what the transcription call may return
Transcripts == {Q_Plan, S_Works}

\* a disconnect that leaves the list as it is
RemoveNothing(list, x) == list

\* list.remove(x)
Remove(list, x) == SelectSeq(list, LAMBDA y : y # x)

\* the dict main.py:108-113 hands to broadcast
Event(question, text) ==
    [type |-> "answer", question |-> question, answer |-> text, timestamp |-> now]

\* session loops calling capture_audio of the one AudioService (main.py:43, 87)
NumConsumers == 2

Consumers == 1..NumConsumers

\* AudioService.__init__ (audio_service.py:25): the buffer is an empty list
InitCaptureIdle ==
    /\ buffer = <<>>
    /\ produced = 0
    /\ capturing = [c \in Consumers |-> "idle"]
    /\ audio_data = [c \in Consumers |-> <<>>]

\* capture_audio up to its sleep (audio_service.py:97-102): the first call opens
\* the system microphone; opens = FALSE: sd.InputStream raises, which
\* connect_to_audio_source catches (audio_service.py:83-85)
BeginCapture(opens) ==
    /\ is_recording' = TRUE
    /\ audio_device' = IF ~is_recording /\ opens THEN "started" ELSE audio_device

\* blocks the microphone delivers in one run
MaxProduced == 6

\* the event loop thread is between two statements of capture_audio that no
\* await separates: no other coroutine runs until it has left them
InCapture == \E c \in Consumers : capturing[c] = "returning"

\* capture_audio is called and suspends in asyncio.sleep(2) (audio_service.py:97-102)
CaptureBegins(c, opens) ==
    /\ ~InCapture
    /\ capturing[c] = "idle"
    /\ capturing' = [capturing EXCEPT ![c] = "sleeping"]
    /\ BeginCapture(opens)
    /\ UNCHANGED <<buffer, produced, audio_data>>

\* _audio_callback (audio_service.py:87-93), called by the stream for each block
\* of input in the thread of the audio library, whatever the event loop thread
\* is doing
AudioCallback ==
    /\ audio_device = "started"
    /\ produced < MaxProduced
    /\ produced' = produced + 1
    /\ buffer' = Append(buffer, produced + 1)
    /\ UNCHANGED <<capturing, audio_data, audioVars>>

\* capture_audio resumes (audio_service.py:104-107): an empty buffer gives an
\* empty array at once; otherwise np.concatenate reads the blocks buffered now
CaptureConcatenates(c) ==
    /\ ~InCapture
    /\ capturing[c] = "sleeping"
    /\ IF buffer = <<>>
       THEN /\ capturing' = [capturing EXCEPT ![c] = "processing"]
            /\ UNCHANGED audio_data
       ELSE /\ capturing' = [capturing EXCEPT ![c] = "returning"]
            /\ audio_data' = [audio_data EXCEPT ![c] = @ \o buffer]
    /\ UNCHANGED <<buffer, produced, audioVars>>

\* self.buffer = [] and the return (audio_service.py:108-110): the list object
\* that held the blocks, and whatever the callback appended to it meanwhile, is
\* dropped; the caller goes on to transcription, detection, generation and
\* broadcast
CaptureReturns(c) ==
    /\ capturing[c] = "returning"
    /\ capturing' = [capturing EXCEPT ![c] = "processing"]
    /\ buffer' = <<>>
    /\ UNCHANGED <<produced, audio_data, audioVars>>

\* the rest of the iteration ends (main.py:90-116)
ProcessingEnds(c) ==
    /\ ~InCapture
    /\ capturing[c] = "processing"
    /\ capturing' = [capturing EXCEPT ![c] = "idle"]
    /\ UNCHANGED <<buffer, produced, audio_data, audioVars>>

\* ConnectionManager.connect, then asyncio.create_task(process_audio_stream()):
\* the task runs up to the sleep of its first capture_audio
Connect(w, opens) ==
    /\ handler[w] = "new"
    /\ client[w] = "open"
    /\ handler' = [handler EXCEPT ![w] = "listening"]
    /\ active_connections' = Append(active_connections, w)
    /\ task' = [task EXCEPT ![w] = "capture"]
    /\ BeginCapture(opens)
    /\ UNCHANGED <<guardVars, client, received, conversation_history, appended,
                   detected_question, answer, target, cursor, segments, pending,
                   prepared_context, raised,
                   meetingVars, funcVars>>

\* the peer closes its end of the websocket
ClientLeaves(w) ==
    /\ handler[w] = "listening"
    /\ client[w] = "open"
    /\ client' = [client EXCEPT ![w] = "gone"]
    /\ UNCHANGED <<guardVars, active_connections, handler, received, taskVars,
                   audioVars, meetingVars, funcVars>>

\* audio_task.cancel() in the finally clause, when the task is not done
Cancelled(w) ==
    [task EXCEPT ![w] = IF task[w] \in {"failed"} THEN task[w] ELSE "cancelled"]

\* the finally clause forgets to cancel the task
NotCancelled(w) == task

\* the handler leaves its receive loop: manager.disconnect, then finally
HandlerEnds(w) ==
    /\ handler' = [handler EXCEPT ![w] = "done"]
    /\ active_connections' = Remove(active_connections, w)
    /\ task' = Cancelled(w)
    /\ UNCHANGED <<guardVars, received, conversation_history, appended,
                   detected_question, answer, target, cursor, segments, pending,
                   prepared_context, raised,
                   audioVars, meetingVars, funcVars>>

\* receive_json raises WebSocketDisconnect (main.py:132-133, 137-140)
Disconnect(w) ==
    /\ handler[w] = "listening"
    /\ client[w] = "gone"
    /\ HandlerEnds(w)
    /\ UNCHANGED client

\* receive_json or a message handler raises another exception (main.py:134-140);
\* the server closes the websocket when the endpoint returns
HandlerError(w) ==
    /\ handler[w] = "listening"
    /\ client[w] = "open"
    /\ HandlerEnds(w)
    /\ client' = [client EXCEPT ![w] = "gone"]

\* capture_audio returns after its sleep; transcribe_audio starts (main.py:87-90).
\* speech = FALSE: empty buffer or no speech detected, transcribe_audio returns None
Capture(w, speech) ==
    /\ task[w] = "capture"
    /\ task' = [task EXCEPT ![w] = IF speech THEN "transcribe" ELSE "sleep"]
    /\ segments' = segments + 1
    /\ UNCHANGED <<guardVars, connVars, conversation_history, appended,
                   detected_question, answer, target, cursor, pending,
                   prepared_context, raised,
                   audioVars, meetingVars, funcVars>>

\* pop() in place of pop(0): the newest entry is dropped
AppendedPopsNewest(history, transcript) ==
    LET longer == Append(history, transcript)
    IN  IF Len(longer) > WindowCapacity THEN SubSeq(longer, 1, Len(longer) - 1) ELSE longer

\* insert(0, transcript) in place of append(transcript)
AppendedAtFront(history, transcript) ==
    LET longer == <<transcript>> \o history
    IN  IF Len(longer) > WindowCapacity THEN Tail(longer) ELSE longer

\* conversation_history after main.py:93-96
Appended(history, transcript) ==
    LET longer == Append(history, transcript)
    IN  IF Len(longer) > WindowCapacity THEN Tail(longer) ELSE longer

\* the connections in active_connections
Registered == {active_connections[i] : i \in 1..Len(active_connections)}

\* the for statement of broadcast takes the next connection, or the loop ends
NextSend(w, index) ==
    IF index <= Len(active_connections)
    THEN /\ task' = [task EXCEPT ![w] = "broadcast"]
         /\ target' = [target EXCEPT ![w] = active_connections[index]]
         /\ cursor' = [cursor EXCEPT ![w] = index + 1]
    ELSE /\ task' = [task EXCEPT ![w] = "sleep"]
         /\ target' = [target EXCEPT ![w] = 0]
         /\ cursor' = [cursor EXCEPT ![w] = 0]

\* the transcription call raises: transcribe_audio logs the exception and
\* returns None (audio_service.py:178-180), the iteration goes to its sleep
TranscriptionRaises(w) ==
    /\ task[w] = "transcribe"
    /\ openai_client
    /\ task' = [task EXCEPT ![w] = "sleep"]
    /\ raised' = [raised EXCEPT ![w] = "transcription"]
    /\ UNCHANGED <<guardVars, connVars, conversation_history, appended,
                   detected_question, answer, target, cursor, segments, pending,
                   prepared_context, audioVars, meetingVars, funcVars>>

\* the transcription call returns, with a text or with none (main.py:90-105):
\* append, detect, and generate_answer up to its first suspension
\* (answer_generator.py:110-134)
Transcribed(w, transcript) ==
    /\ task[w] = "transcribe"
    /\ IF transcript = None
       THEN /\ task' = [task EXCEPT ![w] = "sleep"]
            /\ UNCHANGED <<guardVars, conversation_history, appended,
                           detected_question, answer, target, cursor, pending,
                           prepared_context>>
       ELSE /\ conversation_history' = [conversation_history EXCEPT
                                           ![w] = Appended(@, transcript)]
            /\ appended' = [appended EXCEPT ![w] = Append(@, transcript)]
            /\ LET question == DetectQuestion(transcript)
               IN  IF question = None \/ question = Empty
                   THEN /\ task' = [task EXCEPT ![w] = "sleep"]
                        /\ UNCHANGED <<guardVars, detected_question, answer, target,
                                       cursor, pending, prepared_context>>
                   ELSE /\ detected_question' = [detected_question EXCEPT ![w] = question]
                        /\ CheckAndRegister(question)
                        /\ IF IsDuplicateRequest(last_requests, question, now)
                           THEN /\ answer' = [answer EXCEPT ![w] = NoAnswer]
                                /\ NextSend(w, 1)
                                /\ pending' = [pending EXCEPT ![w] = Registered]
                                /\ UNCHANGED prepared_context
                           ELSE /\ task' = [task EXCEPT ![w] = "generate"]
                                /\ prepared_context' = [prepared_context EXCEPT
                                       ![w] = PrepareContext(conversation_history'[w])]
                                /\ UNCHANGED <<answer, target, cursor, pending>>
    /\ transcript # None => openai_client
    /\ UNCHANGED raised
    /\ UNCHANGED <<connVars, segments, audioVars, meetingVars, funcVars>>

\* the generation call returns or raises (answer_generator.py:144-154);
\* broadcast starts (main.py:108)
GenerationDone(w, call_raises) ==
    /\ task[w] = "generate"
    /\ LET result == Answered(openai_client, detected_question[w], call_raises)
       IN  IF result.raised
           THEN /\ task' = [task EXCEPT ![w] = "failed"]
                /\ UNCHANGED <<answer, target, cursor, pending>>
                /\ raised' = [raised EXCEPT ![w] = "generation"]
           ELSE /\ answer' = [answer EXCEPT ![w] = result.answer]
                /\ NextSend(w, 1)
                /\ pending' = [pending EXCEPT ![w] = Registered]
                /\ raised' = [raised EXCEPT ![w] = IF result.call_raised THEN "generation" ELSE @]
    /\ prepared_context' = [prepared_context EXCEPT ![w] = Empty]
    /\ UNCHANGED <<guardVars, connVars, conversation_history, appended,
                   detected_question, segments, audioVars, meetingVars, funcVars>>

\* send_json to the awaited connection returns (main.py:63-64)
SendDone(w) ==
    /\ task[w] = "broadcast"
    /\ client[target[w]] = "open"
    /\ received' = [received EXCEPT
                       ![target[w]] = Append(@, Event(detected_question[w], answer[w]))]
    /\ NextSend(w, cursor[w])
    /\ pending' = [pending EXCEPT ![w] = @ \ {target[w]}]
    /\ UNCHANGED <<guardVars, active_connections, handler, client,
                   conversation_history, appended, detected_question, answer, segments,
                   prepared_context, raised,
                   audioVars, meetingVars, funcVars>>

\* send_json to a closed websocket raises; nothing catches it in broadcast or
\* in process_audio_stream, and the task ends with the exception
SendFails(w) ==
    /\ task[w] = "broadcast"
    /\ client[target[w]] = "gone"
    /\ task' = [task EXCEPT ![w] = "failed"]
    /\ UNCHANGED <<guardVars, connVars, conversation_history, appended,
                   detected_question, answer, target, cursor, segments, pending,
                   prepared_context, raised,
                   audioVars, meetingVars, funcVars>>

\* asyncio.sleep(0.1) returns; capture_audio is awaited again (main.py:116, 85-87)
Sleep(w, opens) ==
    /\ task[w] = "sleep"
    /\ task' = [task EXCEPT ![w] = "capture"]
    /\ BeginCapture(opens)
    /\ raised' = [raised EXCEPT ![w] = "none"]
    /\ UNCHANGED <<guardVars, connVars, conversation_history, appended,
                   detected_question, answer, target, cursor, segments, pending,
                   prepared_context,
                   meetingVars, funcVars>>

----------------------------------------------------------------------------
(* platform_manager.py: PlatformManager, as websocket_endpoint calls it.    *)
(* platform_manager = PlatformManager() (main.py:46) is built without an    *)
(* audio service, so it owns a second AudioService (platform_manager.py:31) *)
(* whose capture_audio nobody calls.                                        *)

\* values of the "platform" field of a start_meeting message
Platforms == {<<"zoom">>, <<"default">>}

\* values of its "meeting_id" field
MeetingIds == {<<"m1">>}

\* PlatformManager.connection_status as __init__ and disconnect set it
NotConnected ==
    [connected |-> FALSE, platform |-> None, meeting_id |-> None, error |-> FALSE]

\* AudioService.cleanup (audio_service.py:182-187)
Cleanup(service) ==
    [is_recording |-> FALSE,
     audio_device |-> IF service.audio_device = "started" THEN "stopped"
                      ELSE service.audio_device]

\* a start_meeting message is handled (main.py:124-127): connect_to_meeting.
\* success is what the platform handler returns; _handle_default returns True.
\* The platform branches of connect_to_audio_source are placeholders that
\* open no device (audio_service.py:65-79)
StartMeeting(w, platform, meeting_id, success) ==
    /\ handler[w] = "listening"
    /\ client[w] = "open"
    /\ platform = <<"default">> => success
    /\ IF success
       THEN /\ current_platform' = platform
            /\ current_meeting_id' = meeting_id
            /\ connection_status' = [connected |-> TRUE, platform |-> platform,
                                     meeting_id |-> meeting_id, error |-> FALSE]
       ELSE /\ connection_status' = [connected |-> FALSE, platform |-> platform,
                                     meeting_id |-> meeting_id, error |-> TRUE]
            /\ UNCHANGED <<current_platform, current_meeting_id>>
    /\ UNCHANGED <<guardVars, connVars, taskVars, audioVars, platform_audio, stop_received,
                   funcVars>>

\* a stop_meeting message is handled (main.py:128-129): PlatformManager.disconnect,
\* which cleans up the audio service of the platform manager
StopMeeting(w) ==
    /\ handler[w] = "listening"
    /\ client[w] = "open"
    /\ stop_received' = [stop_received EXCEPT ![w] = TRUE]
    /\ IF current_platform = None
       THEN UNCHANGED <<current_platform, current_meeting_id, connection_status,
                        platform_audio>>
       ELSE /\ platform_audio' = Cleanup(platform_audio)
            /\ current_platform' = None
            /\ current_meeting_id' = None
            /\ connection_status' = NotConnected
    /\ UNCHANGED <<guardVars, connVars, taskVars, audioVars, funcVars>>

----------------------------------------------------------------------------
(* Specifications *)

InitGuard ==
    /\ now = 0
    /\ last_requests = <<>>
    /\ ret = NoCall
    /\ reported = <<>>

InitSystem ==
    /\ active_connections = <<>>
    /\ handler = [w \in Clients |-> "new"]
    /\ client = [w \in Clients |-> "open"]
    /\ received = [w \in Clients |-> <<>>]
    /\ task = [w \in Clients |-> "none"]
    /\ conversation_history = [w \in Clients |-> <<>>]
    /\ appended = [w \in Clients |-> <<>>]
    /\ detected_question = [w \in Clients |-> None]
    /\ answer = [w \in Clients |-> NoAnswer]
    /\ target = [w \in Clients |-> 0]
    /\ cursor = [w \in Clients |-> 0]
    /\ segments = 0
    /\ pending = [w \in Clients |-> {}]
    /\ prepared_context = [w \in Clients |-> Empty]
    /\ raised = [w \in Clients |-> "none"]
    /\ is_recording = FALSE
    /\ audio_device = "none"
    /\ current_platform = None
    /\ current_meeting_id = None
    /\ connection_status = NotConnected
    /\ platform_audio = [is_recording |-> FALSE, audio_device |-> "none"]
    /\ stop_received = [w \in Clients |-> FALSE]

\* no call of generate_answer, _is_speech or detect_question has been made
InitFunctions ==
    /\ generated = NoGeneration
    /\ segment = [frames |-> <<>>, rest |-> 0]
    /\ is_speech = [called |-> FALSE, value |-> FALSE]
    /\ utterance = Empty
    /\ detected = [called |-> FALSE, question |-> None]
    /\ InitMetadataIdle
    /\ InitCaptureIdle

\* the VAD and punkt are present, no classification model is loaded
InitDetectors ==
    /\ vad = TRUE
    /\ nltk_initialized = TRUE
    /\ model_approves = {}

\* OPENAI_API_KEY is set: the transcription and generation clients exist
Init == InitGuard /\ InitSystem /\ InitFunctions /\ InitDetectors /\ openai_client = TRUE

\* the whole system, within one clock instant
Next ==
    \E w \in Clients :
        \/ \E opens \in BOOLEAN : Connect(w, opens)
        \/ ClientLeaves(w)
        \/ Disconnect(w)
        \/ HandlerError(w)
        \/ \E speech \in BOOLEAN : segments < MaxSegments /\ Capture(w, speech)
        \/ \E transcript \in Transcripts \cup {None} : Transcribed(w, transcript)
        \/ \E call_raises \in BOOLEAN : GenerationDone(w, call_raises)
        \/ SendDone(w)
        \/ SendFails(w)
        \/ \E opens \in BOOLEAN : Sleep(w, opens)

Spec == Init /\ [][Next]_vars

\* websocket clients of the meeting specification
NumMeetingClients == 2

MeetingClients == 1..NumMeetingClients

\* sessions that also receive start_meeting and stop_meeting messages
NextMeeting ==
    \E w \in MeetingClients :
        \/ \E opens \in BOOLEAN : Connect(w, opens)
        \/ ClientLeaves(w)
        \/ Disconnect(w)
        \/ HandlerError(w)
        \/ \E platform \in Platforms : \E meeting_id \in MeetingIds :
              \E success \in BOOLEAN : StartMeeting(w, platform, meeting_id, success)
        \/ StopMeeting(w)
        \/ \E speech \in BOOLEAN : segments < MaxSegments /\ Capture(w, speech)
        \/ \E transcript \in Transcripts \cup {None} : Transcribed(w, transcript)
        \/ \E call_raises \in BOOLEAN : GenerationDone(w, call_raises)
        \/ SendDone(w)
        \/ SendFails(w)
        \/ \E opens \in BOOLEAN : Sleep(w, opens)

SpecMeeting == Init /\ [][NextMeeting]_vars

InitIteration ==
    InitGuard /\ InitSystem /\ InitFunctions /\ InitDetectors /\ openai_client \in BOOLEAN

NextIteration ==
    \E w \in MeetingClients :
        \/ \E opens \in BOOLEAN : Connect(w, opens)
        \/ ClientLeaves(w)
        \/ Disconnect(w)
        \/ HandlerError(w)
        \/ \E speech \in BOOLEAN : segments < MaxSegments /\ Capture(w, speech)
        \/ \E transcript \in Transcripts \cup {None} : Transcribed(w, transcript)
        \/ TranscriptionRaises(w)
        \/ \E call_raises \in BOOLEAN : GenerationDone(w, call_raises)
        \/ SendDone(w)
        \/ SendFails(w)
        \/ \E opens \in BOOLEAN : Sleep(w, opens)

\* the iterations of two sessions, with and without an API key, every outcome
\* of the transcription call included
SpecIteration == InitIteration /\ [][NextIteration]_vars

NextSession ==
    \/ \E opens \in BOOLEAN : Connect(1, opens)
    \/ ClientLeaves(1)
    \/ Disconnect(1)
    \/ HandlerError(1)
    \/ \E speech \in BOOLEAN : segments < MaxSegments /\ Capture(1, speech)
    \/ \E transcript \in Transcripts \cup {None} : Transcribed(1, transcript)
    \/ TranscriptionRaises(1)
    \/ \E call_raises \in BOOLEAN : GenerationDone(1, call_raises)
    \/ SendDone(1)
    \/ SendFails(1)
    \/ \E opens \in BOOLEAN : Sleep(1, opens)

\* the iterations of one session, with and without an API key, every outcome
\* of the transcription call included
SpecSession == InitIteration /\ [][NextSession]_vars

\* the questions asked, and asked again, while the generation calls fail
RetryQuestions == {Q_Plan, Q_Deadline, Q_WhoDid}

NextRetry ==
    \/ Tick /\ UNCHANGED <<connVars, taskVars, audioVars, meetingVars, funcVars>>
    \/ \E question \in RetryQuestions :
          /\ GenerateAnswer(question, TRUE)
          /\ UNCHANGED <<connVars, taskVars, audioVars, meetingVars>>

\* calls of generate_answer, every generation call raising, as the clock advances
SpecRetry == Init /\ [][NextRetry]_vars

NextLifecycle ==
    \E w \in Clients :
        \/ \E opens \in BOOLEAN : Connect(w, opens)
        \/ ClientLeaves(w)
        \/ Disconnect(w)
        \/ HandlerError(w)
        \/ \E speech \in BOOLEAN : segments < MaxSegments /\ Capture(w, speech)
        \/ Transcribed(w, None)
        \/ \E opens \in BOOLEAN : Sleep(w, opens)

\* clients connecting and leaving, handlers failing, while the loops of the
\* sessions capture segments in which nothing is said
SpecLifecycle == Init /\ [][NextLifecycle]_vars

\* the event loop resumes a task whose awaited call has completed, a call
\* that was made returns or raises, and a handler whose peer is gone gets its
\* WebSocketDisconnect: no step of a loop or of a handler that stays possible
\* is put off for ever
Fairness ==
    \A w \in MeetingClients :
        /\ WF_vars(Disconnect(w))
        /\ WF_vars(\E speech \in BOOLEAN : segments < MaxSegments /\ Capture(w, speech))
        /\ WF_vars(\/ \E transcript \in Transcripts \cup {None} : Transcribed(w, transcript)
                   \/ TranscriptionRaises(w))
        /\ WF_vars(\E call_raises \in BOOLEAN : GenerationDone(w, call_raises))
        /\ WF_vars(SendDone(w))
        /\ WF_vars(SendFails(w))
        /\ WF_vars(\E opens \in BOOLEAN : Sleep(w, opens))

\* the iterations of two sessions under a fair scheduler
SpecLive == InitIteration /\ [][NextIteration]_vars /\ Fairness

\* the questions handed to generate_answer in the answer specification
AnswerQuestions ==
    {Empty, Q_Deadline, Q_WhoDid, Q_WhenDue, Q_WhereHeld, Q_WhyLate, Q_HowBuilt,
     Q_IsDone, Q_IsKnownWho, Q_ShowIt}

InitAnswer ==
    InitGuard /\ InitSystem /\ InitFunctions /\ InitDetectors /\ openai_client \in BOOLEAN

\* questions registered in one run of the answer specification
MaxRegistered == 3

NextAnswer ==
    \E question \in AnswerQuestions : \E call_raises \in BOOLEAN :
        /\ Cardinality(DOMAIN last_requests) < MaxRegistered
        /\ GenerateAnswer(question, call_raises)
        /\ UNCHANGED <<connVars, taskVars, audioVars, meetingVars>>

\* calls of generate_answer within one clock instant, with and without an API key
SpecAnswer == InitAnswer /\ [][NextAnswer]_vars

\* complete frames of a segment in the speech specification
MaxFrames == 10

\* bytes after the last complete frame: none, or one int16 sample
Rests == {0, 2}

Segments ==
    {audio \in [frames : UNION {[1..n -> BOOLEAN] : n \in 0..MaxFrames}, rest : Rests] :
        ByteLength(audio) > 0}

InitSpeech ==
    /\ InitGuard /\ InitSystem /\ openai_client = TRUE
    /\ generated = NoGeneration
    /\ utterance = Empty
    /\ detected = [called |-> FALSE, question |-> None]
    /\ nltk_initialized = TRUE
    /\ model_approves = {}
    /\ vad \in BOOLEAN
    /\ segment \in Segments
    /\ is_speech = [called |-> FALSE, value |-> FALSE]
    /\ InitMetadataIdle
    /\ InitCaptureIdle

NextSpeech ==
    IsSpeechCall /\ UNCHANGED <<guardVars, connVars, taskVars, audioVars, meetingVars>>

\* _is_speech applied to every segment of up to MaxFrames frames
SpecSpeech == InitSpeech /\ [][NextSpeech]_vars

\* tokens of a transcript in the detection specification
MaxTokens == 4

DetectVocabulary == {"the", "plan", "plan?", "works.", "is", "may", " "}

\* a text alternates words and whitespace
WellFormed(t) == \A i \in 1..(Len(t) - 1) : IsSpace(t[i]) # IsSpace(t[i + 1])

DetectTexts ==
    {t \in UNION {[1..n -> DetectVocabulary] : n \in 0..MaxTokens} : WellFormed(t)}

\* sentences a loaded model may accept although no rule matches them
ModelCandidates == {<<"the", " ", "plan">>, <<"works.">>}

\* the longest enumerated question, in tokens
MaxMetaTokens == 3

MetadataVocabulary ==
    {"What", "what", "which", "whom", "who", "why", "Why", "is", "island", "may",
     "the", "plan?", "wouldn't", "bother?", "so?so", " ", "  "}

MetadataTexts ==
    {t \in UNION {[1..n -> MetadataVocabulary] : n \in 0..MaxMetaTokens} : WellFormed(t)}
        \cup {Q_WhatTime, Q_SoWhyBother, Q_WhoDid, Q_WhereHeld, Q_WhenDue, Q_HowBuilt, Q_IsDone}

InitMetadata ==
    /\ InitGuard /\ InitSystem /\ InitDetectors /\ openai_client = TRUE
    /\ generated = NoGeneration
    /\ segment = [frames |-> <<>>, rest |-> 0]
    /\ is_speech = [called |-> FALSE, value |-> FALSE]
    /\ utterance = Empty
    /\ detected = [called |-> FALSE, question |-> None]
    /\ asked \in MetadataTexts
    /\ metadata = NoMetadata
    /\ InitCaptureIdle

NextMetadata ==
    ExtractMetadata /\ UNCHANGED <<guardVars, connVars, taskVars, audioVars, meetingVars>>

\* extract_question_metadata on every short question text
SpecMetadata == InitMetadata /\ [][NextMetadata]_vars

\* what capture_audio and the audio callback leave alone
aroundCapture ==
    <<guardVars, connVars, taskVars, meetingVars, openai_client, generated,
      vad, segment, is_speech, nltk_initialized, model_approves, utterance,
      detected, metadataVars>>

NextCapture ==
    \/ \E c \in Consumers : \E opens \in BOOLEAN :
          CaptureBegins(c, opens) /\ UNCHANGED aroundCapture
    \/ AudioCallback /\ UNCHANGED aroundCapture
    \/ \E c \in Consumers : CaptureConcatenates(c) /\ UNCHANGED aroundCapture
    \/ \E c \in Consumers : CaptureReturns(c) /\ UNCHANGED aroundCapture
    \/ \E c \in Consumers : ProcessingEnds(c) /\ UNCHANGED aroundCapture

\* the audio callback filling the buffer that capture_audio drains
SpecCapture == Init /\ [][NextCapture]_vars

InitDetect ==
    /\ InitGuard /\ InitSystem /\ openai_client = TRUE
    /\ generated = NoGeneration
    /\ vad = TRUE
    /\ segment = [frames |-> <<>>, rest |-> 0]
    /\ is_speech = [called |-> FALSE, value |-> FALSE]
    /\ nltk_initialized \in BOOLEAN
    /\ model_approves \in SUBSET ModelCandidates
    /\ utterance \in DetectTexts
    /\ detected = [called |-> FALSE, question |-> None]
    /\ InitMetadataIdle
    /\ InitCaptureIdle

NextDetect ==
    Detect /\ UNCHANGED <<guardVars, connVars, taskVars, audioVars, meetingVars>>

\* detect_question applied to every text of up to MaxTokens tokens
SpecDetect == InitDetect /\ [][NextDetect]_vars

\* the texts handed to _is_duplicate_request in the guard specification
GuardQuestions == {Empty, Blank, Q_Plan, Q_PlanCaps, Q_PlanNow, Q_PlanNowThen}

NextGuard ==
    \/ Tick /\ UNCHANGED <<connVars, taskVars, audioVars, meetingVars, funcVars>>
    \/ \E question \in GuardQuestions :
          /\ CheckAndRegister(question)
          /\ UNCHANGED <<connVars, taskVars, audioVars, meetingVars, funcVars>>

\* the guard alone: calls of _is_duplicate_request as the clock advances
SpecGuard == Init /\ [][NextGuard]_vars

\* transcripts without a question: the iteration ends after the append
WindowTranscripts == {S_Works, S_Noted}

\* how many of the appended transcripts are not the default one
Marked(w) == Cardinality({i \in 1..Len(appended[w]) : appended[w][i] # S_Works})

NextWindow ==
    \/ Connect(1, TRUE)
    \/ Len(appended[1]) < MaxAppends /\ Capture(1, TRUE)
    \/ \E transcript \in WindowTranscripts :
          /\ transcript = S_Works \/ Marked(1) < MaxMarked
          /\ Transcribed(1, transcript)
    \/ Sleep(1, TRUE)

\* one session filling its conversation window past its capacity
SpecWindow == Init /\ [][NextWindow]_vars

\* segments captured in one run of the ordering specification
MaxScript == 4

\* what is said in the meeting, segment after segment: the k-th segment
\* captured, if it is transcribed at all, is transcribed as the k-th text
Script ==
    SubSeq(<<S_Works, Q_Plan, S_Noted, Q_Deadline, Q_WhoDid, Q_WhenDue, Q_WhereHeld>>,
           1, MaxScript)

NextOrder ==
    \/ \E w \in 1..2 : \E opens \in BOOLEAN : Connect(w, opens)
    \/ ClientLeaves(2)
    \/ Disconnect(2)
    \/ \E speech \in BOOLEAN : segments < MaxScript /\ Capture(1, speech)
    \/ /\ segments > 0
       /\ \E transcript \in {Script[segments], None} : Transcribed(1, transcript)
    \/ \E call_raises \in BOOLEAN : GenerationDone(1, call_raises)
    \/ SendDone(1)
    \/ SendFails(1)
    \/ \E opens \in BOOLEAN : Sleep(1, opens)

\* one session working through the meeting, a second client listening
SpecOrder == Init /\ [][NextOrder]_vars

\* transcripts of a session that asks a question now and then
ContextTranscripts == {S_Works, S_Noted, Q_Plan}

NextContext ==
    \/ Connect(1, TRUE)
    \/ Len(appended[1]) < MaxAppends /\ Capture(1, TRUE)
    \/ \E transcript \in ContextTranscripts :
          /\ transcript = S_Works \/ Marked(1) < MaxMarked
          /\ Transcribed(1, transcript)
    \/ GenerationDone(1, FALSE)
    \/ SendDone(1)
    \/ Sleep(1, TRUE)

\* one session whose questions are answered from its conversation window
SpecContext == Init /\ [][NextContext]_vars

----------------------------------------------------------------------------
(* Claims about the duplicate-request guard, under SpecGuard.  ret is the   *)
(* outcome of the call made at the current instant (NoCall after a Tick),   *)
(* so ret # NoCall holds exactly in the states right after a call.          *)

\* a text with at least one word: what detect_question returns (a stripped,
\* non-empty sentence, question_detector.py:140-147) and main.py:100 lets through
HasWords(text) == text # None /\ Split(text) # <<>>

\* C5: a question that is stored (the first check registered it) and is checked
\* again while its age is within the 30 s horizon is reported as a duplicate
C5_RepeatWithinHorizonIsDuplicate ==
    (HasWords(ret.question) /\ ret.age >= 0 /\ ret.age <= Horizon) => ret.duplicate

C5_Witness ==
    /\ ret.question = Q_Plan
    /\ ret.age > 0 /\ ret.age <= Horizon
    /\ ret.duplicate

\* C6 as stated: Q is stored and was reported as duplicate; once 30 s or more
\* have elapsed since that report (hence since the registration too), exactly
\* 30 s included, a check of Q reports not duplicate and registers Q anew
C6_Original_ExpiredAtHorizon ==
    (HasWords(ret.question) /\ ret.age >= 0 /\ ret.reported >= Horizon) =>
        /\ ~ret.duplicate
        /\ ret.question \in DOMAIN last_requests
        /\ last_requests[ret.question] = now

\* C6 amended: a stored Q checked when more than 30 s have elapsed since it was
\* registered is reported as not duplicate and registered anew; when exactly
\* 30 s have elapsed it is still reported as duplicate and keeps its timestamp
C6_ExpiredAfterHorizon ==
    /\ (HasWords(ret.question) /\ ret.age > Horizon) =>
          /\ ~ret.duplicate
          /\ ret.question \in DOMAIN last_requests
          /\ last_requests[ret.question] = now
    /\ (HasWords(ret.question) /\ ret.age = Horizon) =>
          /\ ret.duplicate
          /\ last_requests[ret.question] = now - Horizon

\* registered, reported as duplicate once, then checked after the horizon
C6_Witness ==
    /\ ret.question = Q_Plan
    /\ ret.reported >= Horizon
    /\ ret.age > Horizon
    /\ ~ret.duplicate
    /\ last_requests[Q_Plan] = now

\* Jaccard similarity of the lowercased word sets above 0.80, as a fraction
JaccardAbove80(text1, text2) ==
    LET a == WordSet(text1)
        b == WordSet(text2)
    IN  5 * Cardinality(a \cap b) > 4 * Cardinality(a \cup b)

\* the stored keys that are at most 30 s old
Surviving(requests, current_time) ==
    {k \in DOMAIN requests : current_time - requests[k] <= 30}

\* a step that is a call (the clock stands still) of the guard
IsCall == now' = now /\ ret'.question # None

\* C7: a call reports duplicate exactly when some key surviving the purge has
\* Jaccard similarity strictly above 0.80 with the question
C7_DuplicateIffJaccardAbove80 ==
    [][IsCall =>
         (ret'.duplicate <=>
            \E k \in Surviving(last_requests, now) : JaccardAbove80(k, ret'.question))]_vars

\* 4 shared words out of a union of 5: similarity exactly 0.80, not a duplicate
C7_Witness ==
    /\ ret.question = Q_PlanNow
    /\ ~ret.duplicate
    /\ Q_Plan \in DOMAIN last_requests
    /\ last_requests[Q_Plan] < now
    /\ now - last_requests[Q_Plan] <= Horizon
    /\ Cardinality(WordSet(Q_Plan) \cap WordSet(Q_PlanNow)) = 4
    /\ Cardinality(WordSet(Q_Plan) \cup WordSet(Q_PlanNow)) = 5

\* C8: a call that reports duplicate adds no key and changes no timestamp; a call
\* that reports not-duplicate stores question -> now and changes no other key
C8_FrameOfCheck ==
    [][IsCall =>
         LET q == ret'.question
             kept == Surviving(last_requests, now)
         IN  IF ret'.duplicate
             THEN /\ DOMAIN last_requests' = kept
                  /\ \A k \in kept : last_requests'[k] = last_requests[k]
             ELSE /\ DOMAIN last_requests' = kept \cup {q}
                  /\ last_requests'[q] = now
                  /\ \A k \in kept \ {q} : last_requests'[k] = last_requests[k]]_vars

\* a repeat some time after the registration: the timestamp is still the original one
C8_Witness ==
    /\ ret.duplicate
    /\ ret.age > 0 /\ ret.age < Horizon
    /\ last_requests[ret.question] = now - ret.age
    /\ Cardinality(DOMAIN last_requests) >= 2

\* C9: right after a call at time now, every stored key is at most 30 s old
C9_KeysWithinHorizonAfterCheck ==
    ret # NoCall =>
        \A k \in DOMAIN last_requests : now - last_requests[k] <= 30

\* a call late in the session: older keys are gone, a key aged exactly 30 s stays
C9_Witness ==
    /\ ret # NoCall
    /\ now > Horizon
    /\ \E k \in DOMAIN last_requests : now - last_requests[k] = Horizon

\* C10: the empty text has similarity 0 with every stored key and is never
\* reported as a duplicate, whatever the dict holds
C10_EmptyQuestionNeverDuplicate ==
    /\ \A k \in DOMAIN last_requests :
          Similarity(k, Empty) = Zero /\ Similarity(Empty, k) = Zero
    /\ ~IsDuplicateRequest(last_requests, Empty, now)
    /\ ret.question = Empty => ~ret.duplicate

\* the empty text checked while the empty text itself and a question are stored
C10_Witness ==
    /\ ret.question = Empty
    /\ ret.age >= 0 /\ ret.age <= Horizon
    /\ ~ret.duplicate
    /\ Q_Plan \in DOMAIN last_requests

----------------------------------------------------------------------------
(* Claims about the session loop *)

\* C1: after the k-th append the window holds the last min(k, 30) appended
\* transcripts, in their original order, and never more than 30
C1_WindowHoldsLastThirty ==
    \A w \in Clients :
        LET k == Len(appended[w])
            n == IF k < 30 THEN k ELSE 30
        IN  /\ Len(conversation_history[w]) = n
            /\ Len(conversation_history[w]) <= 30
            /\ \A i \in 1..n : conversation_history[w][i] = appended[w][k - n + i]

\* 32 appends: the first two entries are evicted, a later marked one is kept
C1_Witness ==
    /\ Len(appended[1]) = 32
    /\ appended[1][1] = S_Noted
    /\ appended[1][3] = S_Works
    /\ appended[1][4] = S_Noted
    /\ conversation_history[1][1] = S_Works
    /\ conversation_history[1][2] = S_Noted
    /\ Len(conversation_history[1]) = 30

\* C2 as stated: an iteration whose dedup check reports duplicate (generate_answer
\* returns "") broadcasts nothing, so no client ever receives an empty answer
C2_DuplicateIsNotBroadcast ==
    /\ \A w \in Clients : task[w] = "broadcast" => answer[w] # NoAnswer
    /\ \A c \in Clients : \A i \in 1..Len(received[c]) : received[c][i].answer # NoAnswer

\* the step in which the send awaited by the broadcast of task w raises
SendRaises(w) ==
    /\ task[w] = "broadcast"
    /\ client[target[w]] = "gone"
    /\ handler'[w] = handler[w]
    /\ <<task[w], target[w], cursor[w]>> # <<task'[w], target'[w], cursor'[w]>>

\* C3 as stated: with several registered connections, a send that raises is
\* caught: the broadcast goes on to the other connections or returns normally,
\* and the failing connection is no longer registered
C3_SendFailureIsContained ==
    [][\A w \in Clients :
         (SendRaises(w) /\ Len(active_connections) >= 2) =>
             /\ task'[w] \in {"broadcast", "sleep"}
             /\ \A i \in 1..Len(active_connections') : active_connections'[i] # target[w]]_vars

\* C4 as stated: a loop is cancelled only between iterations, never while a
\* transcription call, a generation call or a broadcast of its iteration is pending
C4_CancelledOnlyBetweenIterations ==
    [][\A w \in Clients :
         (task'[w] = "cancelled" /\ task[w] # "cancelled") =>
             task[w] \in {"capture", "sleep"}]_vars

\* a cancelled broadcast: one registered client has the event, another one,
\* registered since before the broadcast began, will never get it
HalfSentBroadcast ==
    \E w \in Clients : \E c, d \in Clients :
        /\ task[w] = "cancelled"
        /\ cursor[w] > 0
        /\ c # d /\ handler[c] = "listening" /\ handler[d] = "listening"
        /\ client[c] = "open" /\ client[d] = "open"
        /\ Len(received[c]) = 1 /\ Len(received[d]) = 0
        /\ segments = 1

----------------------------------------------------------------------------
(* Ownership of the dedup state (Spec: the clock stands still, so every    *)
(* registration is within the horizon)                                      *)

\* how many transcripts of session w so far had question as their detected question
OwnDetections(w, question) ==
    Cardinality({i \in 1..Len(appended[w]) : DetectQuestion(appended[w][i]) = question})

\* C11 as stated: the dedup state belongs to one session, so a session's question
\* is reported duplicate (its answer is "") only if that same session detected
\* the question before; a registration made by another session never causes it
C11_DuplicateOnlyFromOwnSession ==
    \A w \in Clients :
        (task[w] = "broadcast" /\ answer[w] = NoAnswer) =>
            OwnDetections(w, detected_question[w]) >= 2

----------------------------------------------------------------------------
(* Broadcast over a changing connection list (Spec) *)

\* C15 as stated: when a broadcast returns, every connection that was registered
\* when it was called and is still registered has been sent the event
C15_BroadcastServesEveryRegistered ==
    [][\A w \in Clients :
         (task[w] = "broadcast" /\ task'[w] = "sleep") =>
             pending'[w] \cap {active_connections'[i] : i \in 1..Len(active_connections')} = {}]_vars

----------------------------------------------------------------------------
(* Stopping a session *)

\* C13 as stated (SpecMeeting): once stop_meeting has been handled on a session,
\* its loop starts no further capture
C13_NoCaptureAfterStop ==
    [][\A w \in Clients :
         stop_received[w] => ~(task[w] = "sleep" /\ task'[w] = "capture")]_vars

\* no session loop is running
AllLoopsEnded == \A w \in Clients : task[w] \in {"none", "cancelled", "failed"}

\* C14 as stated (Spec): when the loops that were cancelled have exited and no
\* loop is left, the capture source is released: the stream is stopped and the
\* recording flag is cleared
C14_CancelledLoopReleasesSource ==
    ((\E w \in Clients : task[w] = "cancelled") /\ AllLoopsEnded) =>
        (~is_recording /\ audio_device # "started")

----------------------------------------------------------------------------
(* Claims about generate_answer, under SpecAnswer.  generated is the call   *)
(* made last; generated.novel: the question was neither empty nor duplicate *)

\* a call for a novel question made without an API key
DegradedCall == generated.novel /\ ~openai_client

TemplateOfType(type) ==
    CASE type = "who"   -> WhoTemplate
      [] type = "where" -> WhereTemplate
      [] type = "why"   -> WhyTemplate
      [] type = "how"   -> HowTemplate

MockSubstrings == <<"who", "when", "where", "why", "how">>
MockTemplates == <<WhoTemplate, WhenTemplate, WhereTemplate, WhyTemplate, HowTemplate>>

C18_GenerateNeverRaises ==
    generated.question # None =>
        /\ ~generated.raised
        /\ generated.call_raised => generated.answer = Apology
        /\ DegradedCall =>
               /\ ~generated.external_call
               /\ generated.answer \in {MockTemplates[i] : i \in 1..5} \cup {GenericTemplate}

C18_Witness ==
    /\ openai_client
    /\ generated.call_raised
    /\ generated.external_call
    /\ generated.answer = Apology

----------------------------------------------------------------------------
(* Speech detection, under SpecSpeech *)

\* the complete frames of a segment that the VAD classifies as speech
SpeechFrames(audio) == {k \in 1..Len(audio.frames) : audio.frames[k]}

\* C19 as stated: with the VAD present, a non-empty segment with at least one
\* complete frame is accepted exactly when the speech frames are at least 30% of
\* all its complete frames, wherever they lie
C19_AcceptedIffThirtyPercent ==
    (is_speech.called /\ vad /\ Len(segment.frames) > 0) =>
        (is_speech.value <=>
            Cardinality(SpeechFrames(segment)) * 100 >= 30 * Len(segment.frames))

----------------------------------------------------------------------------
(* Question detection, under SpecDetect *)

\* C20: for every transcript whose last character is "?", detect_question returns
\* a non-empty string, with or without punkt and whatever the model accepts
C20_TrailingMarkIsDetected ==
    (detected.called /\ utterance # Empty
     /\ EndsWithQuestionMark(utterance[Len(utterance)])) =>
        (detected.question # None /\ detected.question # Empty)

\* "the plan?": only the trailing mark makes it a question
C20_Witness ==
    /\ detected.called
    /\ utterance = <<"the", " ", "plan?">>
    /\ model_approves = {}
    /\ detected.question = utterance

\* the sentences the loop of detect_question goes through
SentencesOf(transcript, tokenizes) ==
    IF tokenizes THEN SentTokenize(transcript) ELSE <<transcript>>

\* the sentence satisfies the rule-based pass or the model-based pass
Qualifies(sentence) ==
    IsQuestionRuleBased(sentence) \/ sentence \in model_approves

\* C21: detect_question returns the first sentence, in the order of the text, that
\* satisfies the rule-based or the model-based pass, and None when there is none
C21_FirstQualifyingSentence ==
    (detected.called /\ utterance # Empty) =>
        LET sentences == SentencesOf(utterance, nltk_initialized)
            qualifying == {i \in 1..Len(sentences) : Qualifies(sentences[i])}
        IN  IF qualifying = {}
            THEN detected.question = None
            ELSE \E i \in qualifying :
                    /\ \A j \in qualifying : i <= j
                    /\ detected.question = Strip(sentences[i])

\* "works. plan?": the model accepts the first sentence, a rule the second one
C21_Witness ==
    /\ detected.called
    /\ nltk_initialized
    /\ utterance = <<"works.", " ", "plan?">>
    /\ <<"works.">> \in model_approves
    /\ detected.question = <<"works.">>

\* one of the three patterns of question_patterns matches the sentence
MatchesPattern(sentence) ==
    LET t == Strip(sentence)
    IN  /\ t # <<>>
        /\ \/ Len(t) >= 3 /\ Lower(t[1]) \in YesNoLeads /\ IsSpace(t[2])
           \/ Len(t) >= 3 /\ Lower(t[1]) \in WhWords /\ IsSpace(t[2])
           \/ EndsWithQuestionMark(t[Len(t)])

\* the first word of the sentence is one of question_starters
StartsWithStarter(sentence) ==
    Split(sentence) # <<>> /\ Lower(Split(sentence)[1]) \in question_starters

\* C22 as stated: without a model, detect_question returns None for every text
\* none of whose sentences matches one of the three patterns
C22_Original_OnlyThreeRules ==
    (detected.called /\ model_approves = {}) =>
        ((\A i \in 1..Len(SentencesOf(utterance, nltk_initialized)) :
             ~MatchesPattern(SentencesOf(utterance, nltk_initialized)[i]))
         => detected.question = None)

\* C22 amended: without a model, detect_question returns None exactly for the texts
\* none of whose sentences matches one of the three patterns or begins with one of
\* the question starters
C22_PatternsOrStarter ==
    (detected.called /\ model_approves = {} /\ utterance # Empty) =>
        (detected.question = None <=>
            \A i \in 1..Len(SentencesOf(utterance, nltk_initialized)) :
                LET sentence == SentencesOf(utterance, nltk_initialized)[i]
                IN  ~MatchesPattern(sentence) /\ ~StartsWithStarter(sentence))

\* "may": no pattern matches, the first word is a question starter
C22_Witness ==
    /\ detected.called
    /\ model_approves = {}
    /\ utterance = <<"may", " ", "plan">>
    /\ ~MatchesPattern(utterance)
    /\ detected.question = utterance

----------------------------------------------------------------------------
(* The metadata of a question (SpecMetadata) *)

\* the prefixes in the order they are tried, each with the type it gives
TypeOrder ==
    << <<{"what"}, "what">>, <<{"who", "whom", "whose"}, "who">>, <<{"where"}, "where">>,
       <<{"when"}, "when">>, <<{"why"}, "why">>, <<{"how"}, "how">>,
       <<{"which"}, "which">>, <<YesNoLeads, "yes_no">> >>

QuestionTypes ==
    {"what", "who", "where", "when", "why", "how", "which", "yes_no", "unknown"}

\* the type of the first entry of TypeOrder the text begins with, else unknown
OrderedLookup(question) ==
    LET t == Strip(question)
        prefixes == IF t = <<>> THEN {} ELSE TypePrefixes(Lower(t[1]))
        hits == {i \in 1..Len(TypeOrder) : TypeOrder[i][1] \cap prefixes # {}}
    IN  IF hits = {} THEN "unknown"
        ELSE TypeOrder[CHOOSE i \in hits : \A j \in hits : i <= j][2]

\* C23: for every non-empty question the returned type is the one of the first
\* prefix, in the order what, who/whom/whose, where, when, why, how, which, the
\* yes/no leads, that the lowercased stripped text begins with, unknown when
\* there is none; it is always one of the nine types, never "wh"
C23_TypeByOrderedPrefix ==
    (metadata.called /\ asked # Empty) =>
        /\ metadata.present
        /\ metadata.question_type = OrderedLookup(asked)
        /\ metadata.question_type \in QuestionTypes

\* a question beginning with "which", the last prefix of the WH chain
C23_Witness ==
    /\ metadata.called
    /\ asked = <<"  ", "which", " ">>
    /\ metadata.question_type = "which"

\* C24: for every non-empty question, word_count is the number of
\* whitespace-separated tokens, contains_question_mark says whether a "?"
\* occurs anywhere in the text, is_rhetorical says whether the lowercased text
\* contains one of the rhetorical phrases; "What time is the deadline?" gives
\* what, 5 words, a question mark, not rhetorical
C24_MetadataFields ==
    (metadata.called /\ asked # Empty) =>
        /\ metadata.word_count = Cardinality({i \in 1..Len(asked) : asked[i] \notin {" ", "  "}})
        /\ metadata.contains_question_mark
              = (\E i \in 1..Len(asked) : HasQuestionMark(asked[i]))
        /\ metadata.is_rhetorical
              = (\E pattern \in rhetorical_patterns : \E i \in 1..Len(asked) :
                    FoundAt(pattern, asked, i))
        /\ asked = Q_WhatTime =>
              metadata = [called |-> TRUE, present |-> TRUE, question_type |-> "what",
                          is_rhetorical |-> FALSE, word_count |-> 5,
                          contains_question_mark |-> TRUE]

\* a rhetorical question whose "?" is inside the text, not at its end
C24_Witness ==
    /\ metadata.called
    /\ asked = Q_SoWhyBother
    /\ metadata.is_rhetorical
    /\ metadata.contains_question_mark
    /\ metadata.word_count = 3

----------------------------------------------------------------------------
(* The context of a generation call (SpecContext) *)

\* the messages of the numbered lines of a prepared context
Messages(context) == [i \in 1..Len(context) |-> context[i].message]

\* the last k entries of a list
LastEntries(list, k) == [i \in 1..k |-> list[Len(list) - k + i]]

\* the smaller of two numbers
Min(a, b) == IF a < b THEN a ELSE b

\* C25: while a generation call is in progress, the context built for it holds
\* the last min(10, length) transcripts of the conversation window, oldest
\* first and numbered from 1, the last one being the transcript in which the
\* question was detected; the window is still what the append left: the last
\* min(30, number appended) transcripts of the session
C25_ContextIsRecentWindow ==
    \A w \in Clients : task[w] = "generate" =>
        LET window == conversation_history[w]
            view == Messages(prepared_context[w])
        IN  /\ Len(view) = Min(max_context_length, Len(window))
            /\ view = LastEntries(window, Len(view))
            /\ \A i \in 1..Len(view) : prepared_context[w][i].index = i
            /\ Len(view) > 0
            /\ DetectQuestion(view[Len(view)]) = detected_question[w]
            /\ window = LastEntries(appended[w], Min(WindowCapacity, Len(appended[w])))

\* a question asked when the window is full: the context holds 10 of the 30
\* transcripts, and the oldest of them is not the oldest of the window
C25_Witness ==
    /\ task[1] = "generate"
    /\ Len(appended[1]) > WindowCapacity
    /\ Len(conversation_history[1]) = WindowCapacity
    /\ Len(prepared_context[1]) = max_context_length
    /\ conversation_history[1][1] = S_Noted
    /\ prepared_context[1][1].message = S_Works
    /\ prepared_context[1][max_context_length].message = Q_Plan

----------------------------------------------------------------------------
(* The capture buffer (SpecCapture) *)

\* C26: the number of buffered blocks stays below a fixed capacity, the oldest
\* block being dropped at the capacity: however many blocks the callback
\* delivers while capture_audio is not draining the buffer, the buffer never
\* holds all of them
C26_BufferBounded ==
    Len(buffer) < MaxProduced

----------------------------------------------------------------------------
(* The order of processing within a session (SpecOrder) *)

\* the segments whose transcript is the text, or contains the question
SegmentsOf(text) ==
    {k \in 1..MaxScript : Script[k] = text \/ DetectQuestion(Script[k]) = text}

\* the texts come from segments captured one after another, in that order
InCaptureOrder(texts) ==
    /\ \A i \in 1..Len(texts) : SegmentsOf(texts[i]) # {}
    /\ \A i, j \in 1..Len(texts) : i < j =>
          \A k \in SegmentsOf(texts[i]) : \A l \in SegmentsOf(texts[j]) : k < l

\* the questions of the events a client has received
QuestionsReceived(c) == [i \in 1..Len(received[c]) |-> received[c][i].question]

\* the segments that have left a trace in the window or in a broadcast
Processed ==
    UNION ({SegmentsOf(conversation_history[1][i]) : i \in 1..Len(conversation_history[1])}
           \cup UNION {{SegmentsOf(received[c][i].question) : i \in DOMAIN received[c]} :
                          c \in Clients})

\* C27: the entries of the session window and the events each client has
\* received from the session are in the order in which their segments were
\* captured; nothing of a segment is in the window or broadcast before the
\* segment is captured, and while a segment is awaiting its transcription
\* nothing of it is there yet, everything there being from earlier segments
C27_ProcessedInCaptureOrder ==
    /\ InCaptureOrder(conversation_history[1])
    /\ \A c \in Clients : InCaptureOrder(QuestionsReceived(c))
    /\ \A k \in Processed : k <= segments
    /\ task[1] = "transcribe" => \A k \in Processed : k < segments

\* the two questions of the meeting were answered to the listener in order,
\* the statement between them being in the window between them
C27_Witness ==
    /\ conversation_history[1] = <<S_Works, Q_Plan, S_Noted, Q_Deadline>>
    /\ QuestionsReceived(2) = <<Q_Plan, Q_Deadline>>
    /\ task[1] = "sleep"

----------------------------------------------------------------------------
(* Iterations without a question (SpecSession) *)

\* no sentence of the transcript is a question for the detector
HasNoQuestion(transcript) ==
    LET sentences == SentencesOf(transcript, nltk_initialized)
    IN  \A i \in 1..Len(sentences) : ~Qualifies(Strip(sentences[i]))

\* session w gets no transcript: its iteration leaves capture_audio or
\* transcribe_audio for a later stage and nothing was appended
YieldsNoText(w) ==
    /\ task[w] \in {"capture", "transcribe"}
    /\ task'[w] \in {"sleep", "generate", "broadcast", "failed"}
    /\ appended'[w] = appended[w]

\* session w gets a transcript without a question
YieldsNoQuestion(w) ==
    /\ task[w] = "transcribe"
    /\ Len(appended'[w]) = Len(appended[w]) + 1
    /\ HasNoQuestion(appended'[w][Len(appended'[w])])

\* what detection, the dedup check, generation and broadcast would write
NothingFurther(w) ==
    /\ task'[w] = "sleep"
    /\ UNCHANGED <<last_requests, ret, reported, received, detected_question, answer,
                   target, cursor, pending, prepared_context>>

\* C28: an iteration that gets no transcript leaves the window as it is and
\* goes to its sleep with no detection, dedup check, generation or broadcast;
\* an iteration whose transcript has no question appends the transcript to
\* the window (dropping the oldest entry beyond 30) and goes to its sleep with
\* no dedup check, generation or broadcast
C28_NoTextNoQuestion ==
    [][\A w \in Clients :
          /\ YieldsNoText(w) =>
                /\ conversation_history'[w] = conversation_history[w]
                /\ NothingFurther(w)
          /\ YieldsNoQuestion(w) =>
                /\ conversation_history'[w]
                      = Appended(conversation_history[w], appended'[w][Len(appended'[w])])
                /\ NothingFurther(w)]_vars

\* a statement was appended in the first iteration of session 1, the second
\* iteration got no transcript because the call raised; nothing was checked,
\* generated or sent
C28_Witness ==
    /\ task[1] = "sleep"
    /\ raised[1] = "transcription"
    /\ conversation_history[1] = <<S_Works>>
    /\ segments = 2
    /\ DOMAIN last_requests = {}
    /\ received[1] = <<>>

----------------------------------------------------------------------------
(* The answer event of a novel question (SpecIteration) *)

\* the generation stage of session w ends with this step; a session is in that
\* stage exactly when its question passed the dedup check
GenerationStageEnds(w) == task[w] = "generate" /\ task'[w] # "generate"

\* manager.broadcast is called with the answer event of the iteration: the
\* task is at the first send of the broadcast, or past it when no connection
\* is registered
BroadcastCalled(w) ==
    /\ task'[w] \in {"broadcast", "sleep"}
    /\ pending'[w] = {active_connections[i] : i \in 1..Len(active_connections)}
    /\ answer'[w] \in {Generated, Apology}
    /\ detected_question'[w] = detected_question[w]

\* client c is sent an event by this step
Delivered(c) == received'[c] # received[c]

\* C29: the iteration of a novel question goes from its generation stage to
\* the broadcast of one event carrying the question and the answer generated
\* for it, and to nothing else; every event delivered has type "answer" and
\* carries the question, the answer and the time of the broadcasting session
C29_NovelQuestionIsBroadcast ==
    [][/\ \A w \in Clients : GenerationStageEnds(w) => BroadcastCalled(w)
       /\ \A c \in Clients : Delivered(c) =>
             \E w \in Clients :
                /\ task[w] = "broadcast" /\ target[w] = c
                /\ received'[c] = Append(received[c],
                                         [type |-> "answer", question |-> detected_question[w],
                                          answer |-> answer[w], timestamp |-> now])]_vars

----------------------------------------------------------------------------
(* A collaborator call that raises (SpecLive) *)

\* C30: when the transcription call or the generation call of an iteration
\* has raised, the loop of the session is eventually awaiting its next
\* segment, unless the session itself has ended meanwhile
C30_LoopSurvivesFailure ==
    \A w \in MeetingClients :
        (raised[w] # "none") ~> (task[w] = "capture" \/ handler[w] = "done")

----------------------------------------------------------------------------
(* A question whose generation failed (SpecRetry) *)

\* C31: a question whose generation call raised is in the dedup record, the
\* registration having been made before the call; when a question that is in
\* the record for 30 s or less is asked again, the call is a duplicate: no
\* generation call is made and the answer is empty
C31_FailedQuestionStaysRegistered ==
    /\ generated.call_raised => generated.question \in DOMAIN last_requests
    /\ (ret.question = generated.question /\ ret.age >= 0 /\ ret.age <= Horizon) =>
          /\ ret.duplicate
          /\ ~generated.novel
          /\ ~generated.external_call
          /\ generated.answer = NoAnswer

\* the generation for Q_Plan failed at time 0 (every call of this
\* specification that passes the guard fails); Q_Plan is asked again 30 s later
C31_Witness ==
    /\ ret.question = Q_Plan
    /\ ret.age = Horizon
    /\ last_requests[Q_Plan] = 0
    /\ generated.question = Q_Plan
    /\ generated.answer = NoAnswer

\* how many times block k is in the buffer or in what the callers were given
Copies(k) ==
    Cardinality({i \in DOMAIN buffer : buffer[i] = k})
      + Cardinality({c \in Consumers : \E i \in DOMAIN audio_data[c] : audio_data[c][i] = k})

\* C32: whenever no capture_audio call is between its concatenation and its
\* return, every block the callback has appended is either still buffered or
\* was returned by one capture_audio call, never by two and never by none;
\* and the audio source is opened only by a call that finds is_recording unset
C32_EveryBlockReturnedOnce ==
    [][/\ ~InCapture' => \A k \in 1..produced' : Copies(k)' = 1
       /\ (audio_device' = "started" /\ audio_device # "started") => ~is_recording]_vars

----------------------------------------------------------------------------
(* The connection set (SpecLifecycle) *)

\* how many times websocket w is in active_connections
Occurrences(w) == Cardinality({i \in DOMAIN active_connections : active_connections[i] = w})

\* C33: the connection set holds each websocket whose handler is in its
\* receive loop exactly once and no other websocket; the pipeline task of a
\* handler that has ended is not running any more
C33_ConnectionSetIsRunningHandlers ==
    \A w \in Clients :
        /\ Occurrences(w) = IF handler[w] = "listening" THEN 1 ELSE 0
        /\ handler[w] = "done" => task[w] \in {"cancelled", "failed"}

\* the handler of client 1 ended, the one of client 2 too, after client 3 had
\* connected; client 3 is the only one left in the set
C33_Witness ==
    /\ handler[1] = "done" /\ task[1] = "cancelled"
    /\ handler[2] = "done" /\ task[2] = "cancelled"
    /\ handler[3] = "listening"
    /\ active_connections = <<3>>
    /\ segments > 0

----------------------------------------------------------------------------
(* The two records of the platform manager (SpecMeeting) *)

\* C34: after any sequence of connect_to_meeting and disconnect calls,
\* connection_status.connected is true exactly when current_platform is set, and
\* when it is true connection_status.platform and connection_status.meeting_id
\* equal current_platform and current_meeting_id; a failed attempt made while a
\* meeting is connected included.
C34_RecordsAgree ==
    /\ connection_status.connected <=> current_platform # None
    /\ connection_status.connected =>
          /\ connection_status.platform = current_platform
          /\ connection_status.meeting_id = current_meeting_id

----------------------------------------------------------------------------
(* The loop before start_meeting (SpecMeeting) *)

\* no session has handled a start_meeting message: connect_to_meeting replaces
\* connection_status by a record that names its platform, and only disconnect,
\* called for a stop_meeting message, puts the initial record back
NoStartMeetingHandled ==
    /\ connection_status = NotConnected
    /\ \A w \in Clients : ~stop_received[w]

\* C35: the pipeline task of a session does not begin capturing audio until a
\* start_meeting message has been received on that session, and no answer is
\* broadcast for a session that was never started: while no start_meeting
\* message has been handled at all, no capture_audio call has been made and no
\* client has received an answer.
C35_IdleUntilStartMeeting ==
    NoStartMeetingHandled =>
        /\ segments = 0
        /\ \A w \in Clients : received[w] = <<>>

----------------------------------------------------------------------------
(* Isolation of the sessions (Spec) *)

\* C12 as stated: a send that fails on the connection of another session never
\* terminates the pipeline task of this session: a task ends with an error only
\* on a send to its own connection
C12_ForeignSendFailureSparesTask ==
    [][\A w \in Clients :
         (SendRaises(w) /\ target[w] # w) => task'[w] # "failed"]_vars

====
